---- MODULE Spec2Model ----
(***************************************************************************)
(* Conversation stage machine and cross-process state synchronisation of   *)
(* the loan sales assistant: the driver (MasterAgent.process_message), the *)
(* shared state file (StateManager), the document verifier and the         *)
(* sanction-letter trigger.                                                *)
(*                                                                         *)
(* Data abstraction.  A snapshot is the JSON document of the state file.   *)
(* A key that is absent, null or empty is the field's empty value (FALSE,  *)
(* 0, "none", <<>>), as the code reads every field through dict.get or a   *)
(* truthiness test.  Confidence scores are hundredths.  A key of           *)
(* customer_details or loan_details is TRUE when it holds a value.         *)
(*                                                                         *)
(* The state object handed to StateManager and to the business-rule        *)
(* agents is duck-typed (the hasattr guards of state_manager.py).  A step  *)
(* that reads an attribute the object lacks raises, and every caller       *)
(* catches it; such a step has a failing outcome next to the outcome it    *)
(* has when the object carries the attribute.  conversation_stage of the   *)
(* state file is the stage.                                                *)
(***************************************************************************)
EXTENDS Integers, Sequences, FiniteSets, TLC

\* ---------------------------------------------------------------- bounds
MaxTurns == 2
MaxCycles == 2
MaxRuns == 2

\* ------------------------------------------------------------- constants
ConfThreshold == 50
RecursionLimit == 25

\* max_retries of generate_content_with_retry
MaxRetries == 5

\* the depth at which the interpreter raises RecursionError (1000 by
\* default), kept small here
MaxDepth == 8

StageOrder ==
  << "greeting", "intent_capture", "sales_exploration", "verification",
     "underwriting", "documentation", "closure" >>

Stages == { StageOrder[i] : i \in 1..Len(StageOrder) }

Rank(s) == CHOOSE i \in 1..Len(StageOrder) : StageOrder[i] = s

Decisions == { "pending", "approved", "rejected", "need_more_info" }

DocTypes == { "salary_slip", "bank_statement" }

Scores == { 30, 49, 50, 80 }

UploadIds == { "doc_1", "doc_2" }

\* ------------------------------------------------------------ state shape
EmptyCD ==
  [ customer_id |-> FALSE, name |-> FALSE, phone |-> FALSE,
    address |-> FALSE, pan |-> FALSE, account_number |-> FALSE,
    ifsc_code |-> FALSE, bank_name |-> FALSE, uploaded |-> {}, verified |-> {},
    conf |-> [t \in DocTypes |-> 0], status |-> [t \in DocTypes |-> "none"],
    income_proof |-> FALSE, ipc |-> 0 ]

EmptyLD ==
  [ amount |-> FALSE, tenure |-> FALSE, purpose |-> FALSE,
    interest_rate |-> FALSE, emi |-> FALSE ]

EmptyVS ==
  [ nonempty |-> FALSE, customer_verified |-> FALSE, phone_verified |-> FALSE,
    address_verified |-> FALSE, account_details_verified |-> FALSE,
    income_proof_verified |-> FALSE, income_proof_confidence |-> 0,
    verified |-> FALSE ]

NoIPV == [ present |-> FALSE, status |-> "none", confidence_score |-> 0 ]

NoUploads == [ d \in UploadIds |-> "absent" ]

ConversationState ==
  [ stage |-> "greeting", customer_id |-> FALSE,
    customer_details |-> EmptyCD, loan_details |-> EmptyLD,
    verification_status |-> EmptyVS, underwriting_result |-> "none",
    underwriting_status |-> "none", decision |-> "pending",
    sanction_letter_id |-> 0, documentation_status |-> "none",
    messages |-> << >>, next_agent |-> "none",
    document_uploads |-> NoUploads, income_proof_verification |-> NoIPV,
    recursion_depth |-> 0 ]

\* ---------------------------------------------------------- StateManager
\* _state_to_dict: the keys that are written; an optional key is written
\* only when its value is truthy, which is the field's empty value here.
StateToDict(s) ==
  [ customer_details |-> s.customer_details,
    loan_details |-> s.loan_details,
    messages |-> s.messages,
    conversation_stage |-> s.stage,
    decision |-> s.decision,
    verification_status |-> s.verification_status,
    underwriting_result |-> s.underwriting_result,
    documentation_status |-> s.documentation_status,
    sanction_letter_id |-> s.sanction_letter_id,
    document_uploads |-> s.document_uploads,
    income_proof_verification |-> s.income_proof_verification ]

\* the snapshot's document_uploads taking the place of the state's
MergeUploadsReplaced(cur, new) == new

\* lines 149-156
MergeUploads(cur, new) ==
  [ d \in UploadIds |-> IF new[d] # "absent" THEN new[d] ELSE cur[d] ]

\* A message of the snapshot without role or content is "malformed": the
\* loop of lines 191-193 raises KeyError when it reaches one.
MergeRaises(cur, new) ==
  /\ Len(new) > Len(cur)
  /\ \E i \in (Len(cur) + 1)..Len(new) : new[i] = "malformed"

\* the messages appended before the loop raises
MessagesUntilRaise(cur, new) ==
  LET k == CHOOSE i \in (Len(cur) + 1)..Len(new) :
             /\ new[i] = "malformed"
             /\ \A j \in (Len(cur) + 1)..(i - 1) : new[j] # "malformed"
  IN cur \o SubSeq(new, Len(cur) + 1, k - 1)

\* lines 183-197: by index; a snapshot that is not longer replaces the list
MergeMessages(cur, new) ==
  IF Len(new) > Len(cur)
    THEN cur \o SubSeq(new, Len(cur) + 1, Len(new))
    ELSE new

\* lines 158-171
DerivedFlags(cur, e) ==
  LET ipv == e.income_proof_verification
  IN IF ipv.present
       THEN [ cur EXCEPT !.nonempty = TRUE,
                         !.income_proof_verified = (ipv.status = "verified"),
                         !.income_proof_confidence = ipv.confidence_score ]
       ELSE cur

\* lines 158-171, then 205-207
MergeVerificationStatus(cur, e) ==
  IF e.verification_status.nonempty
    THEN e.verification_status ELSE DerivedFlags(cur, e)

\* _update_state_from_dict up to the KeyError of the message loop: what the
\* lines before it have assigned stays assigned
UpdateUntilRaise(s, e) ==
  [ s EXCEPT
      !.document_uploads = MergeUploads(s.document_uploads, e.document_uploads),
      !.income_proof_verification =
         IF e.income_proof_verification.present
           THEN e.income_proof_verification ELSE @,
      !.verification_status = DerivedFlags(s.verification_status, e),
      !.customer_details = e.customer_details,
      !.loan_details = e.loan_details,
      !.messages = MessagesUntilRaise(s.messages, e.messages) ]

\* lines 213-227: the status is set on the attribute documentation_status,
\* which the state has ("none" is its absence) only once the generator or
\* an earlier merge has assigned it
MergeDocumentationStatus(s, e) ==
  LET ds == IF e.documentation_status # "none"
              THEN e.documentation_status ELSE s.documentation_status
  IN IF e.sanction_letter_id # 0 /\ ds # "none" THEN "completed" ELSE ds

UpdateWhole(s, e) ==
  [ s EXCEPT
      !.document_uploads = MergeUploads(s.document_uploads, e.document_uploads),
      !.income_proof_verification =
         IF e.income_proof_verification.present
           THEN e.income_proof_verification ELSE @,
      !.customer_details = e.customer_details,
      !.loan_details = e.loan_details,
      !.messages = MergeMessages(s.messages, e.messages),
      !.stage = e.conversation_stage,
      !.decision = e.decision,
      !.verification_status = MergeVerificationStatus(s.verification_status, e),
      !.underwriting_result =
         IF e.underwriting_result # "none" THEN e.underwriting_result ELSE @,
      !.sanction_letter_id =
         IF e.sanction_letter_id # 0 THEN e.sanction_letter_id ELSE @,
      !.documentation_status = MergeDocumentationStatus(s, e) ]

UpdateStateFromDict(s, e) ==
  IF MergeRaises(s.messages, e.messages)
    THEN UpdateUntilRaise(s, e) ELSE UpdateWhole(s, e)

\* The state file: missing, opened for writing and not yet dumped, or whole.
NoFile == [ kind |-> "none", data |-> StateToDict(ConversationState) ]

Truncated == [ kind |-> "partial", data |-> StateToDict(ConversationState) ]

Whole(d) == [ kind |-> "full", data |-> d ]

\* load_state applying the default snapshot where there is none to read
LoadStateUnguarded(s, f) == UpdateStateFromDict(s, f.data)

\* load_state: a missing file and an unparseable one leave the state as it is
LoadState(s, f) ==
  IF f.kind = "full" THEN UpdateStateFromDict(s, f.data) ELSE s

\* ------------------------------------------------------------ stage machine
\* the verification branch with the test of verified left out
VerificationStepUnchecked(s) ==
  [ stage |-> "underwriting", next_agent |-> "underwriting_agent" ]

\* lines 697-704
VerificationStep(s) ==
  IF s.verification_status.verified
    THEN [ stage |-> "underwriting", next_agent |-> "underwriting_agent" ]
    ELSE [ stage |-> "verification", next_agent |-> "verification_agent" ]

\* the documentation branch never leaving documentation
DocumentationStepStuck(s) ==
  [ stage |-> "documentation", next_agent |-> "sanction_letter_agent" ]

\* lines 722-729
DocumentationStep(s) ==
  IF s.sanction_letter_id # 0
    THEN [ stage |-> "closure", next_agent |-> "generate_response" ]
    ELSE [ stage |-> "documentation", next_agent |-> "sanction_letter_agent" ]

\* _determine_next_step: the new stage and next_agent
DetermineNextStep(s) ==
  CASE s.stage = "greeting" ->
         IF s.customer_id
           THEN [ stage |-> "intent_capture", next_agent |-> "generate_response" ]
           ELSE [ stage |-> "greeting", next_agent |-> "generate_response" ]
    [] s.stage = "intent_capture" ->
         [ stage |-> "sales_exploration", next_agent |-> "sales_agent" ]
    [] s.stage = "sales_exploration" ->
         IF s.loan_details.amount /\ s.loan_details.tenure
           THEN [ stage |-> "verification", next_agent |-> "verification_agent" ]
           ELSE [ stage |-> "sales_exploration", next_agent |-> "sales_agent" ]
    [] s.stage = "verification" -> VerificationStep(s)
    [] s.stage = "underwriting" ->
         IF s.decision \in { "approved", "rejected" }
           THEN IF s.decision = "approved"
                  THEN [ stage |-> "documentation",
                         next_agent |-> "sanction_letter_agent" ]
                  ELSE [ stage |-> "closure", next_agent |-> "generate_response" ]
           ELSE [ stage |-> "underwriting", next_agent |-> "underwriting_agent" ]
    [] s.stage = "documentation" -> DocumentationStep(s)
    [] s.stage = "closure" ->
         [ stage |-> "closure", next_agent |-> "end" ]
    [] OTHER ->
         [ stage |-> s.stage, next_agent |-> "generate_response" ]

\* ------------------------------------------------------ business-rule agents
\* VerificationAgent.process; crm says whether the CRM lookup finds the customer
VerificationAgentProcess(s, crm) ==
  LET cd == s.customer_details
      account == cd.account_number /\ cd.ifsc_code /\ cd.bank_name
      flags(cv, acc, inc) ==
        [ EmptyVS EXCEPT !.nonempty = TRUE, !.customer_verified = cv,
                         !.phone_verified = cv, !.address_verified = cv,
                         !.account_details_verified = acc,
                         !.income_proof_verified = inc,
                         !.verified = acc /\ inc ]
      ask(acc, inc) ==
        (IF acc THEN << >> ELSE << "ask_bank" >>)
          \o (IF inc THEN << >> ELSE << "ask_income" >>)
  IN IF cd.customer_id
       THEN IF crm
              THEN [ s EXCEPT
                       !.customer_details =
                          [ cd EXCEPT !.phone = TRUE, !.address = TRUE ],
                       !.verification_status =
                          flags(TRUE, account, cd.income_proof),
                       !.messages = @ \o ask(account, cd.income_proof) ]
              ELSE [ s EXCEPT
                       !.verification_status = [ EmptyVS EXCEPT !.nonempty = TRUE ] ]
       ELSE [ s EXCEPT
                !.verification_status = [ EmptyVS EXCEPT !.nonempty = TRUE ],
                !.messages = @ \o ask(FALSE, FALSE) ]

\* UnderwritingAgent.process writes underwriting_status and nothing else of
\* the state; it looks for loan_amount and loan_tenure in loan_details, keys
\* that no step of the driver writes.
UnderwritingAgentProcess(s) ==
  [ s EXCEPT !.underwriting_status =
      IF ~s.customer_details.customer_id THEN "rejected" ELSE "pending" ]

\* SanctionLetterGenerator.process on the driver's state
SanctionLetterProcess(s) ==
  [ s EXCEPT !.documentation_status =
      IF ~s.customer_details.customer_id THEN "error"
      ELSE IF s.underwriting_status = "none" THEN "pending"
      ELSE IF s.underwriting_status \in
                { "approved", "conditional_approval", "rejected" }
        THEN "completed"
      ELSE "error" ]

AgentProcess(s, crm) ==
  CASE s.next_agent = "verification_agent" -> VerificationAgentProcess(s, crm)
    [] s.next_agent = "underwriting_agent" -> UnderwritingAgentProcess(s)
    [] s.next_agent = "sanction_letter_agent" -> SanctionLetterProcess(s)
    [] OTHER -> s

\* ------------------------------------------------------------------ driver
\* What the extraction collaborator returns: the entities and next_stage.
EntityKinds == { "none", "loan", "loan_null", "customer_id", "doc_uploaded" }

\* next_stage may name any stage; these are the ones the runs below need
\* ("none": no suggestion, or one that is not a stage and is ignored)
Suggestions == { "none", "greeting", "sales_exploration", "underwriting" }

\* _process_user_input, lines 540-626
ProcessUserInput(s, ent, sug) ==
  LET cd == s.customer_details
      s1 == CASE ent = "loan" ->
                  [ s EXCEPT !.loan_details.amount = TRUE,
                             !.loan_details.tenure = TRUE ]
               [] ent = "loan_null" ->
                  [ s EXCEPT !.loan_details.amount = FALSE ]
               [] ent = "customer_id" ->
                  [ s EXCEPT !.customer_details.customer_id = TRUE ]
               [] ent = "doc_uploaded" ->
                  [ s EXCEPT !.customer_details.uploaded =
                               @ \cup { "salary_slip" } ]
               [] OTHER -> s
  IN IF sug \in Stages THEN [ s1 EXCEPT !.stage = sug ] ELSE s1

AddMessage(s, m) == [ s EXCEPT !.messages = Append(@, m) ]

\* _generate_response appends the reply; process_message appends the
\* response text once more (line 1338) after the loop-guard check.
LoopGuard(s) ==
  IF s.recursion_depth > RecursionLimit
    THEN [ s EXCEPT !.stage = "greeting", !.next_agent = "generate_response" ]
    ELSE s

Respond(s) ==
  IF s.next_agent = "end"
    THEN AddMessage(LoopGuard(s), "assistant")
    ELSE AddMessage(LoopGuard(AddMessage(s, "assistant")), "assistant")

UsesStore(a) ==
  a \in { "verification_agent", "underwriting_agent", "sanction_letter_agent" }

VARIABLES S, pc, turns, file, dv, tr, docs, input

vars == << S, pc, turns, file, dv, tr, docs, input >>

\* A worker between polls holds no snapshot: state_data is local to one
\* iteration of the loop.
Worker0 == [ pc |-> "sleep", local |-> StateToDict(ConversationState), cycles |-> 0 ]

Sleep(w) == [ w EXCEPT !.pc = "sleep", !.local = Worker0.local ]

\* the except branch of a loop leaving the loop
PollErrorStops(w) == [ w EXCEPT !.pc = "stopped" ]

\* except Exception in both loops: the error is logged, the loop sleeps and
\* goes to its next iteration
PollError(w) == [ w EXCEPT !.cycles = @ + 1 ]

\* os.path.exists is false: nothing is read, the loop sleeps
PollNothing(w) == [ w EXCEPT !.cycles = @ + 1 ]

\* process_message up to the first access to the state file, the extraction
\* result drawn from Ents and Sugs
Message(Ents, Sugs) ==
  /\ pc = "idle"
  /\ turns < MaxTurns
  /\ turns' = turns + 1
  /\ \E ent \in Ents, sug \in Sugs, saved \in BOOLEAN :
       LET s1 == ProcessUserInput(AddMessage(S, "user"), ent, sug)
           d  == DetermineNextStep(s1)
           s2 == [ s1 EXCEPT !.stage = d.stage, !.next_agent = d.next_agent ]
       IN IF UsesStore(d.next_agent)
            THEN /\ S' = s2
                 /\ IF saved
                      THEN pc' = "save" /\ file' = Truncated
                      ELSE pc' = "agent" /\ file' = file
            ELSE /\ saved
                 /\ S' = Respond(s2)
                 /\ pc' = "idle"
                 /\ file' = file
  /\ UNCHANGED << dv, tr, docs, input >>

ProcessMessage == Message(EntityKinds, Suggestions)

\* the error path of process_message, lines 1356-1375
ProcessMessageError ==
  /\ pc = "idle"
  /\ turns < MaxTurns
  /\ turns' = turns + 1
  /\ S' = AddMessage(S, "user")
  /\ UNCHANGED << pc, file, dv, tr, docs, input >>

\* save_state: json.dump completes
DriverSaveDump ==
  /\ pc = "save"
  /\ file' = Whole(StateToDict(S))
  /\ pc' = "agent"
  /\ UNCHANGED << S, turns, dv, tr, docs, input >>

\* the business-rule agent of _run_*_agent; when it raises, load_state is
\* skipped (lines 895-902)
DriverAgent ==
  /\ pc = "agent"
  /\ \/ \E crm \in BOOLEAN :
          /\ S' = AgentProcess(S, crm)
          /\ pc' = "load"
     \/ /\ S' = Respond(S)
        /\ pc' = "idle"
  /\ UNCHANGED << turns, file, dv, tr, docs, input >>

\* load_state and the rest of the turn
DriverLoad ==
  /\ pc = "load"
  /\ S' = Respond(LoadState(S, file))
  /\ pc' = "idle"
  /\ UNCHANGED << turns, file, dv, tr, docs, input >>

\* ------------------------------------------------------- document verifier
\* every uploaded type, scored before or not
UnverifiedOrNot(d) == d.customer_details.uploaded

\* _has_unverified_documents
Unverified(d) == d.customer_details.uploaded \ d.customer_details.verified

HasUnverifiedDocuments(d) == Unverified(d) # {}

RECURSIVE SumOf(_, _)
SumOf(f, T) ==
  IF T = {} THEN 0
  ELSE LET t == CHOOSE x \in T : TRUE IN f[t] + SumOf(f, T \ {t})

\* the comparison of lines 147 and 151 made strict
IsVerifiedScoreStrict(score) == score > ConfThreshold

IsVerifiedScore(score) == score >= ConfThreshold

\* _process_documents on the loaded snapshot; sc is what _analyze_document
\* returns for each type it is called for.  The result is state_data as it is dumped.
ProcessDocuments(d, sc) ==
  LET cd == d.customer_details
      todo == Unverified(d)
      n == Cardinality(todo)
      overall == SumOf(sc, todo) \div n
      cd1 == [ cd EXCEPT
                 !.verified = @ \cup { t \in todo : IsVerifiedScore(sc[t]) },
                 !.conf = [ t \in DocTypes |-> IF t \in todo THEN sc[t] ELSE @[t] ],
                 !.status =
                    [ t \in DocTypes |->
                        IF t \notin todo THEN @[t]
                        ELSE IF IsVerifiedScore(sc[t]) THEN "approved"
                        ELSE "rejected" ] ]
  IN IF n = 0 THEN d
     ELSE [ d EXCEPT
              !.customer_details =
                 [ cd1 EXCEPT !.ipc = overall,
                              !.income_proof = IsVerifiedScore(overall) ],
              !.messages =
                 Append(@, IF IsVerifiedScore(overall)
                             THEN "docs_verified" ELSE "docs_rejected") ]

\* _update_verification_status: whether it modifies, and the state_data
UpdateVerificationModified(d) == d.customer_details.income_proof

\* the aggregate set without looking at the other flags
AllRequiredAssumed(vs) == TRUE

\* lines 255-258
AllRequiredVerified(vs) ==
  /\ vs.customer_verified /\ vs.phone_verified
  /\ vs.address_verified /\ vs.account_details_verified

UpdateVerificationStatus(d) ==
  LET vs == d.verification_status
      vs1 == [ vs EXCEPT !.nonempty = TRUE,
                         !.income_proof_verified = TRUE,
                         !.income_proof_confidence = d.customer_details.ipc ]
      all == AllRequiredVerified(vs)
  IN IF d.customer_details.income_proof
       THEN [ d EXCEPT !.verification_status =
                IF all THEN [ vs1 EXCEPT !.verified = TRUE ] ELSE vs1 ]
       ELSE d

\* one poll: os.path.exists, open, json.load; an unparseable file raises and
\* the loop sleeps again
DocLoad ==
  /\ dv.pc = "sleep"
  /\ dv.cycles < MaxCycles
  /\ dv' = IF file.kind = "full"
             THEN [ pc |-> "loaded", local |-> file.data, cycles |-> dv.cycles + 1 ]
             ELSE IF file.kind = "partial" THEN PollError(dv)
             ELSE PollNothing(dv)
  /\ UNCHANGED << S, pc, turns, file, tr, docs, input >>

\* _process_documents up to open(path, 'w')
DocProcess ==
  /\ dv.pc = "loaded"
  /\ IF HasUnverifiedDocuments(dv.local)
       THEN \E sc \in [ Unverified(dv.local) -> Scores ] :
              /\ dv' = [ dv EXCEPT !.pc = "write1",
                                   !.local = ProcessDocuments(dv.local, sc) ]
              /\ file' = Truncated
       ELSE /\ dv' = [ dv EXCEPT !.pc = "update" ]
            /\ file' = file
  /\ UNCHANGED << S, pc, turns, tr, docs, input >>

DocDump ==
  /\ dv.pc = "write1"
  /\ file' = Whole(dv.local)
  /\ dv' = [ dv EXCEPT !.pc = "update" ]
  /\ UNCHANGED << S, pc, turns, tr, docs, input >>

\* _update_verification_status up to open(path, 'w')
DocUpdate ==
  /\ dv.pc = "update"
  /\ IF UpdateVerificationModified(dv.local)
       THEN /\ dv' = [ dv EXCEPT !.pc = "write2",
                                 !.local = UpdateVerificationStatus(dv.local) ]
            /\ file' = Truncated
       ELSE /\ dv' = Sleep(dv)
            /\ file' = file
  /\ UNCHANGED << S, pc, turns, tr, docs, input >>

DocUpdateDump ==
  /\ dv.pc = "write2"
  /\ file' = Whole(dv.local)
  /\ dv' = Sleep(dv)
  /\ UNCHANGED << S, pc, turns, tr, docs, input >>

\* --------------------------------------------------------- sanction trigger
CustomerFieldNames ==
  { "customer_id", "name", "phone", "address", "pan", "account_number",
    "ifsc_code", "bank_name" }

LoanFieldNames == { "amount", "tenure", "purpose", "interest_rate", "emi" }

RequiredCustomerFields(cd) == \A f \in CustomerFieldNames : cd[f]

\* the loop over required_loan_fields left out
RequiredLoanFieldsSkipped(ld) == TRUE

RequiredLoanFields(ld) == \A f \in LoanFieldNames : ld[f]

\* the test of lines 94-96 left out
NoSanctionLetterCheck(d) == TRUE

\* lines 94-96
NoSanctionLetterYet(d) == d.sanction_letter_id = 0

\* the predicate with the underwriting decision left unread
UnderwritingNotRead(d) == TRUE

\* lines 115-119
UnderwritingApproves(d) ==
  d.underwriting_result \in { "approved", "conditionally_approved" }

\* _should_generate_sanction_letter
ShouldGenerateSanctionLetter(d) ==
  /\ NoSanctionLetterYet(d)
  /\ d.verification_status.verified
  /\ d.verification_status.income_proof_verified
  /\ ~(d.verification_status.income_proof_confidence < ConfThreshold)
  /\ UnderwritingApproves(d)
  /\ RequiredCustomerFields(d.customer_details)
  /\ RequiredLoanFields(d.loan_details)

\* lines 168-172: the id is the path of the generated document
WithSanctionLetter(d, id) ==
  [ d EXCEPT !.sanction_letter_id = id, !.documentation_status = "completed" ]

TriggerLoad(i) ==
  /\ tr[i].pc = "sleep"
  /\ tr[i].cycles < MaxCycles
  /\ tr' = [ tr EXCEPT ![i] =
               IF file.kind = "full"
                 THEN [ pc |-> "loaded", local |-> file.data,
                        cycles |-> tr[i].cycles + 1 ]
                 ELSE IF file.kind = "partial" THEN PollError(tr[i])
                 ELSE PollNothing(tr[i]) ]
  /\ UNCHANGED << S, pc, turns, file, dv, docs, input >>

\* the predicate, then _generate_sanction_letter up to open(path, 'w'); the
\* generator returns a document path, or returns none or raises (line 182)
TriggerGenerate(i) ==
  /\ tr[i].pc = "loaded"
  /\ IF ShouldGenerateSanctionLetter(tr[i].local)
       THEN \/ /\ docs' = docs + 1
               /\ tr' = [ tr EXCEPT ![i].pc = "write",
                            ![i].local = WithSanctionLetter(tr[i].local, docs + 1) ]
               /\ file' = Truncated
            \/ /\ tr' = [ tr EXCEPT ![i] = Sleep(@) ]
               /\ UNCHANGED << docs, file >>
       ELSE /\ tr' = [ tr EXCEPT ![i] = Sleep(@) ]
            /\ UNCHANGED << docs, file >>
  /\ UNCHANGED << S, pc, turns, dv, input >>

TriggerDump(i) ==
  /\ tr[i].pc = "write"
  /\ file' = Whole(tr[i].local)
  /\ tr' = [ tr EXCEPT ![i] = Sleep(@) ]
  /\ UNCHANGED << S, pc, turns, dv, docs, input >>

\* ------------------------------------------------------------ specification
\* The state file outlives the processes and is also written by the tools
\* of the repository (simulate_document_upload.py, test_parallel_processing
\* .py): at start it is missing or holds a snapshot of an earlier session.
SeedSnapshot(dec, uw) ==
  [ StateToDict(ConversationState) EXCEPT
      !.customer_details =
         [ EmptyCD EXCEPT !.customer_id = TRUE, !.name = TRUE,
                          !.phone = TRUE, !.address = TRUE, !.pan = TRUE,
                          !.account_number = TRUE, !.ifsc_code = TRUE,
                          !.bank_name = TRUE,
                          !.uploaded = { "salary_slip" } ],
      !.loan_details = [ f \in LoanFieldNames |-> TRUE ],
      !.verification_status =
         [ EmptyVS EXCEPT !.nonempty = TRUE, !.customer_verified = TRUE,
                          !.phone_verified = TRUE, !.address_verified = TRUE,
                          !.account_details_verified = TRUE ],
      !.messages = << "user", "assistant" >>,
      !.conversation_stage = IF dec = "pending" THEN "verification" ELSE "underwriting",
      !.decision = dec,
      !.underwriting_result = uw ]

Seeds ==
  { SeedSnapshot("pending", "none"), SeedSnapshot("approved", "approved"),
    SeedSnapshot("rejected", "rejected"),
    SeedSnapshot("need_more_info", "conditionally_approved") }

Triggers == 1..MaxRuns

Init ==
  /\ S = ConversationState
  /\ pc = "idle"
  /\ turns = 0
  /\ file \in { NoFile } \cup { Whole(d) : d \in Seeds }
  /\ dv = Worker0
  /\ tr = [ i \in Triggers |-> Worker0 ]
  /\ docs = 0
  /\ input = "none"

Next ==
  \/ ProcessMessage
  \/ ProcessMessageError
  \/ DriverSaveDump
  \/ DriverAgent
  \/ DriverLoad
  \/ DocLoad
  \/ DocProcess
  \/ DocDump
  \/ DocUpdate
  \/ DocUpdateDump
  \/ TriggerLoad(1)
  \/ TriggerGenerate(1)
  \/ TriggerDump(1)

Spec == Init /\ [][Next]_vars

\* ------------------------------------------------- load_state on its own
\* The merge of load_state applied once to a state and a snapshot drawn
\* from small sets; input keeps the state the merge was applied to.
MsgSeqs ==
  { << >> } \cup { << a >> : a \in { "user", "assistant" } }
    \cup { << a, b >> : a, b \in { "user", "assistant" } }

MergeStates ==
  { [ ConversationState EXCEPT !.messages = m, !.decision = dc ] :
      m \in MsgSeqs, dc \in { "pending", "approved" } }

MergeSnapshots ==
  { [ StateToDict(ConversationState) EXCEPT !.messages = m, !.decision = dc ] :
      m \in MsgSeqs, dc \in { "pending", "approved" } }

InitMerge ==
  /\ input \in MergeStates
  /\ S = input
  /\ pc = "merge"
  /\ turns = 0
  /\ file \in { Whole(d) : d \in MergeSnapshots }
  /\ dv = Worker0
  /\ tr = [ i \in Triggers |-> Worker0 ]
  /\ docs = 0

ApplyLoadState ==
  /\ pc = "merge"
  /\ S' = LoadState(S, file)
  /\ pc' = "merged"
  /\ UNCHANGED << turns, file, dv, tr, docs, input >>

SpecMerge == InitMerge /\ [][ApplyLoadState]_vars

\* ------------------------------------------- _determine_next_step on its own
StageInputs ==
  { [ ConversationState EXCEPT
        !.stage = st, !.customer_id = cid,
        !.loan_details = [ EmptyLD EXCEPT !.amount = am, !.tenure = te ],
        !.verification_status = [ EmptyVS EXCEPT !.nonempty = ve, !.verified = ve ],
        !.decision = dc, !.sanction_letter_id = sid,
        !.underwriting_result = uw ] :
      st \in Stages, cid \in BOOLEAN, am \in BOOLEAN, te \in BOOLEAN,
      ve \in BOOLEAN, dc \in Decisions, sid \in { 0, 1 },
      uw \in { "none", "approved" } }

InitStage ==
  /\ input \in StageInputs
  /\ S = input
  /\ pc = "route"
  /\ turns = 0
  /\ file = NoFile
  /\ dv = Worker0
  /\ tr = [ i \in Triggers |-> Worker0 ]
  /\ docs = 0

ApplyDetermineNextStep ==
  /\ pc = "route"
  /\ LET d == DetermineNextStep(S)
     IN S' = [ S EXCEPT !.stage = d.stage, !.next_agent = d.next_agent ]
  /\ pc' = "routed"
  /\ UNCHANGED << turns, file, dv, tr, docs, input >>

SpecStage == InitStage /\ [][ApplyDetermineNextStep]_vars

\* --------------------------------------------- concurrent runs of the trigger
\* A store that the verifier has completed: SeedSnapshot after one cycle of
\* the document verifier scoring the uploaded salary slip sc.
ReadySnapshot(dec, uw, sc) ==
  UpdateVerificationStatus(
    ProcessDocuments(SeedSnapshot(dec, uw), [ t \in DocTypes |-> sc ]))

InitTrigger ==
  /\ S = ConversationState
  /\ pc = "idle"
  /\ turns = 0
  /\ \E sd \in { << "approved", "approved" >>, << "rejected", "rejected" >>,
                 << "need_more_info", "conditionally_approved" >> },
        sc \in Scores :
       file = Whole(ReadySnapshot(sd[1], sd[2], sc))
  /\ input = file.data
  /\ dv = Worker0
  /\ tr = [ i \in Triggers |-> Worker0 ]
  /\ docs = 0

NextTrigger ==
  \E i \in Triggers : TriggerLoad(i) \/ TriggerGenerate(i) \/ TriggerDump(i)

SpecTrigger == InitTrigger /\ [][NextTrigger]_vars

\* ----------------------------------------------------- the driver on its own
\* No worker runs and the file starts missing: whatever the file holds is a
\* snapshot the driver itself saved.
InitDriver ==
  /\ S = ConversationState
  /\ pc = "idle"
  /\ turns = 0
  /\ file = NoFile
  /\ dv = Worker0
  /\ tr = [ i \in Triggers |-> Worker0 ]
  /\ docs = 0
  /\ input = "none"

NextDriver ==
  \/ ProcessMessage
  \/ ProcessMessageError
  \/ DriverSaveDump
  \/ DriverAgent
  \/ DriverLoad

SpecDriver == InitDriver /\ [][NextDriver]_vars

\* ------------------------------------------- the document verifier on its own
\* Stores the verifier can find: a snapshot with some document types
\* uploaded and none scored, the same after one cycle of the verifier, and
\* that with one more upload.
DocBase(up, acc) ==
  [ SeedSnapshot("approved", "approved") EXCEPT
      !.customer_details.uploaded = up,
      !.verification_status.account_details_verified = acc ]

CycleResult(d, sc) == UpdateVerificationStatus(ProcessDocuments(d, sc))

Upload(d, t) == [ d EXCEPT !.customer_details.uploaded = @ \cup { t } ]

DocBases == { DocBase(up, acc) : up \in SUBSET DocTypes, acc \in BOOLEAN }

DocCycled == { CycleResult(b, sc) : b \in DocBases, sc \in [ DocTypes -> Scores ] }

DocSnapshots ==
  DocBases \cup DocCycled \cup { Upload(d, t) : d \in DocCycled, t \in DocTypes }

InitDoc ==
  /\ S = ConversationState
  /\ pc = "idle"
  /\ turns = 0
  /\ file \in { Whole(d) : d \in DocSnapshots }
  /\ input = file.data
  /\ dv = Worker0
  /\ tr = [ i \in Triggers |-> Worker0 ]
  /\ docs = 0

NextDoc == DocLoad \/ DocProcess \/ DocDump \/ DocUpdate \/ DocUpdateDump

SpecDoc == InitDoc /\ [][NextDoc]_vars

\* ------------------------------------------- one trigger, cycle after cycle
\* Stores the trigger can find: those the verifier works on and leaves, and
\* the completed ones with each underwriting decision.
TriggerSnapshots ==
  DocSnapshots
    \cup { ReadySnapshot(sd[1], sd[2], sc) :
             sd \in { << "approved", "approved" >>, << "rejected", "rejected" >>,
                      << "need_more_info", "conditionally_approved" >> },
             sc \in Scores }

InitTriggerAlone ==
  /\ S = ConversationState
  /\ pc = "idle"
  /\ turns = 0
  /\ file \in { Whole(d) : d \in TriggerSnapshots }
  /\ input = file.data
  /\ dv = Worker0
  /\ tr = [ i \in Triggers |-> Worker0 ]
  /\ docs = 0

NextTriggerAlone == TriggerLoad(1) \/ TriggerGenerate(1) \/ TriggerDump(1)

SpecTriggerAlone == InitTriggerAlone /\ [][NextTriggerAlone]_vars

\* --------------------------------- _should_generate_sanction_letter on its own
\* Snapshots that differ from a completed one in the fields the predicate
\* reads: each condition on and off, and at most one required key missing.
PredicateConfidences == { 0, 30, 49, 50, 80 }

UnderwritingDecisions ==
  { "none", "pending", "approved", "conditionally_approved", "rejected" }

PredicateInputs ==
  LET full == ReadySnapshot("approved", "approved", 80)
      drop(r, f) == [ k \in DOMAIN r |-> IF k = f THEN FALSE ELSE r[k] ]
  IN { [ full EXCEPT
           !.sanction_letter_id = sid,
           !.verification_status.verified = ve,
           !.verification_status.income_proof_verified = ipv,
           !.verification_status.income_proof_confidence = cf,
           !.underwriting_result = uw,
           !.customer_details = drop(@, miss),
           !.loan_details = drop(@, miss) ] :
         sid \in { 0, 1 }, ve \in BOOLEAN, ipv \in BOOLEAN,
         cf \in PredicateConfidences, uw \in UnderwritingDecisions,
         miss \in CustomerFieldNames \cup LoanFieldNames \cup { "nothing" } }

InitPredicate ==
  /\ input \in PredicateInputs
  /\ S = ConversationState
  /\ pc = "eval"
  /\ turns = 0
  /\ file = Whole(input)
  /\ dv = Worker0
  /\ tr = [ i \in Triggers |-> Worker0 ]
  /\ docs = 0

ApplyShouldGenerate ==
  /\ pc = "eval"
  /\ pc' = IF ShouldGenerateSanctionLetter(input) THEN "true" ELSE "false"
  /\ UNCHANGED << S, turns, file, dv, tr, docs, input >>

SpecPredicate == InitPredicate /\ [][ApplyShouldGenerate]_vars

\* ---------------------------------- the stage machine, call after call
\* The conditions the stages wait for are supplied one at a time, in any
\* order, and _determine_next_step is called again and again on the state.
HappyConditions ==
  { "customer_id", "loan", "verified", "approved", "sanction_letter_id" }

Supplied(s, c) ==
  CASE c = "customer_id" -> s.customer_id
    [] c = "loan" -> s.loan_details.amount /\ s.loan_details.tenure
    [] c = "verified" -> s.verification_status.verified
    [] c = "approved" -> s.decision = "approved"
    [] c = "sanction_letter_id" -> s.sanction_letter_id # 0

Supply(s, c) ==
  CASE c = "customer_id" -> [ s EXCEPT !.customer_id = TRUE ]
    [] c = "loan" -> [ s EXCEPT !.loan_details.amount = TRUE,
                                !.loan_details.tenure = TRUE ]
    [] c = "verified" -> [ s EXCEPT !.verification_status.nonempty = TRUE,
                                    !.verification_status.verified = TRUE ]
    [] c = "approved" -> [ s EXCEPT !.decision = "approved" ]
    [] c = "sanction_letter_id" -> [ s EXCEPT !.sanction_letter_id = 1 ]

InitHappy ==
  /\ S = ConversationState
  /\ pc = "stepping"
  /\ turns = 0
  /\ file = NoFile
  /\ dv = Worker0
  /\ tr = [ i \in Triggers |-> Worker0 ]
  /\ docs = 0
  /\ input = "none"

Feed(c) ==
  /\ pc = "stepping"
  /\ ~Supplied(S, c)
  /\ S' = Supply(S, c)
  /\ UNCHANGED << pc, turns, file, dv, tr, docs, input >>

StageStep ==
  /\ pc = "stepping"
  /\ LET d == DetermineNextStep(S)
     IN S' = [ S EXCEPT !.stage = d.stage, !.next_agent = d.next_agent ]
  /\ UNCHANGED << pc, turns, file, dv, tr, docs, input >>

NextHappy == StageStep \/ \E c \in HappyConditions : Feed(c)

\* every condition is supplied in the end and the stage machine keeps
\* being called
SpecHappy ==
  /\ InitHappy /\ [][NextHappy]_vars
  /\ WF_vars(StageStep)
  /\ \A c \in HappyConditions : WF_vars(Feed(c))

\* ------------------------------------------ after the underwriting decision
\* The store is complete up to underwriting and holds the decision, approved,
\* rejected or still pending; the driver has merged it.  The extraction names no stage,
\* so the stage moves by _determine_next_step and by the merge alone.
DecidedSnapshots ==
  { ReadySnapshot(sd[1], sd[2], sc) :
      sd \in { << "pending", "none" >>, << "approved", "approved" >>,
               << "rejected", "rejected" >> },
      sc \in Scores }

InitReject ==
  /\ file \in { Whole(d) : d \in DecidedSnapshots }
  /\ S = LoadState(ConversationState, file)
  /\ pc = "idle"
  /\ turns = 0
  /\ dv = Worker0
  /\ tr = [ i \in Triggers |-> Worker0 ]
  /\ docs = 0
  /\ input = "none"

NextReject ==
  \/ Message({ "none", "doc_uploaded" }, { "none" })
  \/ DriverSaveDump
  \/ DriverAgent
  \/ DriverLoad
  \/ DocLoad
  \/ DocProcess
  \/ DocDump
  \/ DocUpdate
  \/ DocUpdateDump
  \/ TriggerLoad(1)
  \/ TriggerGenerate(1)
  \/ TriggerDump(1)

SpecReject == InitReject /\ [][NextReject]_vars

\* ------------------------- _determine_next_step with its conversion in front
\* The state arrives as a ConversationState object or as a dict (lines
\* 667-670); a dict goes through from_dict, where ConversationStage(...)
\* raises ValueError on a value that is no stage, before the try of line 672.
UnknownStages == { "unknown_stage", "Greeting" }

FromDictRaises(data) ==
  data.stage \notin Stages \/ data.decision \notin Decisions

ConvertInputs ==
  { [ form |-> f, state |-> s ] :
      f \in { "dict", "object" },
      s \in StageInputs
             \cup { [ x EXCEPT !.stage = st ] :
                      x \in StageInputs, st \in UnknownStages } }

InitConvert ==
  /\ input \in ConvertInputs
  /\ S = input.state
  /\ pc = "route"
  /\ turns = 0
  /\ file = NoFile
  /\ dv = Worker0
  /\ tr = [ i \in Triggers |-> Worker0 ]
  /\ docs = 0

ConvertAndDetermine ==
  /\ pc = "route"
  /\ IF input.form = "dict" /\ FromDictRaises(S)
       THEN /\ pc' = "raised"
            /\ S' = S
       ELSE /\ LET d == DetermineNextStep(S)
               IN S' = [ S EXCEPT !.stage = d.stage, !.next_agent = d.next_agent ]
            /\ pc' = "routed"
  /\ UNCHANGED << turns, file, dv, tr, docs, input >>

SpecConvert == InitConvert /\ [][ConvertAndDetermine]_vars

\* --------------------------------------- process_message and what it returns
\* One call is one step here: no worker runs, so the file changes only by
\* the driver's own save.  `input` holds the dict the last call returned.
NoResult == [ response |-> "none", stage |-> "none", decision |-> "none" ]

\* lines 1348-1354
OkResult(s) ==
  [ response |-> "reply", stage |-> s.stage, decision |-> s.decision ]

\* lines 1371-1377
ErrorResult(s) ==
  [ response |-> "apology", stage |-> s.stage, decision |-> "error" ]

ResultStates ==
  { ConversationState }
    \cup { LoadState(ConversationState, Whole(d)) : d \in DecidedSnapshots }

InitResult ==
  /\ S \in ResultStates
  /\ input = NoResult
  /\ pc = "idle"
  /\ turns = 0
  /\ file = NoFile
  /\ dv = Worker0
  /\ tr = [ i \in Triggers |-> Worker0 ]
  /\ docs = 0

\* the graph runs to its end and the call returns at line 1348
MessageReturns ==
  /\ pc = "idle"
  /\ turns < MaxTurns
  /\ turns' = turns + 1
  /\ \E ent \in EntityKinds, sug \in Suggestions, saved \in BOOLEAN,
        crm \in BOOLEAN, agent \in BOOLEAN :
       LET s1 == ProcessUserInput(AddMessage(S, "user"), ent, sug)
           d  == DetermineNextStep(s1)
           s2 == [ s1 EXCEPT !.stage = d.stage, !.next_agent = d.next_agent ]
           f1 == IF saved THEN Whole(StateToDict(s2)) ELSE file
       IN IF UsesStore(d.next_agent)
            THEN /\ file' = f1
                 /\ S' = IF agent
                           THEN Respond(LoadState(AgentProcess(s2, crm), f1))
                           ELSE Respond(s2)
            ELSE /\ saved /\ crm /\ agent
                 /\ file' = file
                 /\ S' = Respond(s2)
  /\ input' = OkResult(S')
  /\ UNCHANGED << pc, dv, tr, docs >>

\* graph.invoke raises and the call returns at line 1371
MessageFails ==
  /\ pc = "idle"
  /\ turns < MaxTurns
  /\ turns' = turns + 1
  /\ S' = AddMessage(S, "user")
  /\ input' = ErrorResult(S')
  /\ UNCHANGED << pc, file, dv, tr, docs >>

NextResult == MessageReturns \/ MessageFails

SpecResult == InitResult /\ [][NextResult]_vars

\* ------------------------------------ load_state, field by field, on any file
\* The state the merge is applied to and the file it reads, drawn from the
\* values that decide each branch of _update_state_from_dict: a key of
\* document_uploads on either side, a nested verification result with or
\* without a verification_status block, sanction_letter_id with or without
\* documentation_status, a malformed message; the file missing or
\* unparseable.  input keeps the state the merge was applied to.
UploadsOf(a, b) == [ d \in UploadIds |-> IF d = "doc_1" THEN a ELSE b ]

StaleVS ==
  [ EmptyVS EXCEPT !.nonempty = TRUE, !.customer_verified = TRUE ]

PassedVS ==
  [ EmptyVS EXCEPT !.nonempty = TRUE, !.income_proof_verified = TRUE,
                   !.income_proof_confidence = 80 ]

NestedResults ==
  { NoIPV,
    [ present |-> TRUE, status |-> "verified", confidence_score |-> 80 ],
    [ present |-> TRUE, status |-> "rejected", confidence_score |-> 30 ] }

LoadStates ==
  { [ ConversationState EXCEPT
        !.document_uploads = UploadsOf(u1, u2),
        !.verification_status = vs,
        !.documentation_status = ds,
        !.customer_details.name = nm,
        !.messages = m ] :
      u1 \in { "absent", "pending" }, u2 \in { "absent", "pending" },
      vs \in { EmptyVS, PassedVS }, ds \in { "none", "pending" },
      nm \in BOOLEAN, m \in { << >>, << "user" >> } }

LoadSnapshots ==
  { [ StateToDict(ConversationState) EXCEPT
        !.document_uploads = UploadsOf(u1, u2),
        !.income_proof_verification = ipv,
        !.verification_status = vs,
        !.sanction_letter_id = sid,
        !.documentation_status = ds,
        !.messages = m ] :
      u1 \in { "absent", "verified" }, u2 \in { "absent", "verified" },
      ipv \in NestedResults, vs \in { EmptyVS, StaleVS },
      sid \in { 0, 1 }, ds \in { "none", "completed" },
      m \in { << >>, << "user", "assistant" >>, << "user", "malformed" >> } }

InitLoad ==
  /\ input \in LoadStates
  /\ S = input
  /\ pc = "merge"
  /\ turns = 0
  /\ file \in { NoFile, Truncated } \cup { Whole(d) : d \in LoadSnapshots }
  /\ dv = Worker0
  /\ tr = [ i \in Triggers |-> Worker0 ]
  /\ docs = 0

SpecLoad == InitLoad /\ [][ApplyLoadState]_vars

\* ------------------------------------------ the two background loops together
\* The verifier and the trigger poll the same file, which starts whole or as
\* an interrupted write has left it; each reads what the other is writing.
InitWorkers ==
  /\ S = ConversationState
  /\ pc = "idle"
  /\ turns = 0
  /\ file \in { Truncated } \cup { Whole(d) : d \in TriggerSnapshots }
  /\ input = "none"
  /\ dv = Worker0
  /\ tr = [ i \in Triggers |-> Worker0 ]
  /\ docs = 0

NextWorkers ==
  \/ DocLoad
  \/ DocProcess
  \/ DocDump
  \/ DocUpdate
  \/ DocUpdateDump
  \/ TriggerLoad(1)
  \/ TriggerGenerate(1)
  \/ TriggerDump(1)

SpecWorkers == InitWorkers /\ [][NextWorkers]_vars

\* KeyboardInterrupt, or the SIGTERM of process.terminate(), reaches a loop
\* wherever it is: the loop is left, a write that was open stays as it is.
DocInterrupt ==
  /\ dv.pc # "stopped"
  /\ dv' = [ dv EXCEPT !.pc = "stopped" ]
  /\ UNCHANGED << S, pc, turns, file, tr, docs, input >>

TriggerInterrupt(i) ==
  /\ tr[i].pc # "stopped"
  /\ tr' = [ tr EXCEPT ![i].pc = "stopped" ]
  /\ UNCHANGED << S, pc, turns, file, dv, docs, input >>

InitInterrupt ==
  /\ S = ConversationState
  /\ pc = "idle"
  /\ turns = 0
  /\ file \in { Whole(d) : d \in TriggerSnapshots }
  /\ input = "none"
  /\ dv = Worker0
  /\ tr = [ i \in Triggers |-> Worker0 ]
  /\ docs = 0

NextInterrupt == NextWorkers \/ DocInterrupt \/ TriggerInterrupt(1)

SpecInterrupt == InitInterrupt /\ [][NextInterrupt]_vars

\* ------------------------------ _generate_response and its call of the model
\* generate_content_with_retry as it is written: inside the loop, under
\* retries < max_retries, the try calls generate_content_with_retry itself
\* (line 253), not the model.  Each invocation starts with retries = 0 and
\* calls again, until the interpreter raises RecursionError, which is no
\* ResourceExhausted and passes through every frame to the except of
\* _generate_response.  input.api is the state of the service, which no
\* step reads; input.tries counts the executions of line 253 for one reply.
RetryCall(api) == [ api |-> api, retries |-> 0, depth |-> 0, tries |-> 0 ]

InitRetry ==
  /\ S \in ResultStates
  /\ input \in { RetryCall(api) : api \in { "ok", "limited" } }
  /\ pc = "retry"
  /\ turns = 0
  /\ file = NoFile
  /\ dv = Worker0
  /\ tr = [ i \in Triggers |-> Worker0 ]
  /\ docs = 0

\* lines 250-253: a new invocation, the loop entered, the call made
RetryEnter ==
  /\ pc = "retry"
  /\ input.retries < MaxRetries
  /\ input.depth < MaxDepth
  /\ input' = [ input EXCEPT !.depth = @ + 1, !.tries = @ + 1 ]
  /\ UNCHANGED << S, pc, turns, file, dv, tr, docs >>

\* the call of line 253 at the interpreter's limit
RetryOverflow ==
  /\ pc = "retry"
  /\ input.depth = MaxDepth
  /\ pc' = "unwind"
  /\ UNCHANGED << S, input, turns, file, dv, tr, docs >>

\* lines 255-261 do not catch it
RetryUnwind ==
  /\ pc = "unwind"
  /\ input.depth > 0
  /\ input' = [ input EXCEPT !.depth = @ - 1 ]
  /\ UNCHANGED << S, pc, turns, file, dv, tr, docs >>

\* lines 1226-1240: the canned reply
GenerateFallback ==
  /\ pc = "unwind"
  /\ input.depth = 0
  /\ S' = AddMessage(S, "assistant")
  /\ pc' = "fallback"
  /\ UNCHANGED << input, turns, file, dv, tr, docs >>

NextRetry == RetryEnter \/ RetryOverflow \/ RetryUnwind \/ GenerateFallback

SpecRetry == InitRetry /\ [][NextRetry]_vars

\* ------------------------------------------- save_state, then load_state
\* ConversationState above keeps the fields that the stage machine, the
\* agents and the merge read or write.  __init__ also draws a session_id
\* (uuid4, line 100) and starts an error log (line 166; TRUE here when it
\* holds an entry); no step modelled reads them, and the round trip below
\* carries them along.
WithIdentity(s, id, errs) ==
  [ f \in DOMAIN s \cup { "session_id", "errors" } |->
      IF f = "session_id" THEN id ELSE IF f = "errors" THEN errs ELSE s[f] ]

\* a state built anew: another uuid, no errors
FreshTemplate == WithIdentity(ConversationState, "fresh", FALSE)

RoundTripStates ==
  { WithIdentity(s, "own", e) : s \in LoadStates \cup ResultStates, e \in BOOLEAN }

InitRoundTrip ==
  /\ input \in RoundTripStates
  /\ S = input
  /\ pc = "saving"
  /\ turns = 0
  /\ file = NoFile
  /\ dv = Worker0
  /\ tr = [ i \in Triggers |-> Worker0 ]
  /\ docs = 0

\* save_state: _state_to_dict and json.dump
RoundTripSave ==
  /\ pc = "saving"
  /\ file' = Whole(StateToDict(S))
  /\ pc' = "loading"
  /\ UNCHANGED << S, turns, dv, tr, docs, input >>

\* load_state(state) with state a new ConversationState()
RoundTripLoad ==
  /\ pc = "loading"
  /\ S' = LoadState(FreshTemplate, file)
  /\ pc' = "restored"
  /\ UNCHANGED << turns, file, dv, tr, docs, input >>

SpecRoundTrip == InitRoundTrip /\ [][RoundTripSave \/ RoundTripLoad]_vars

\* ------------------------------------------------- the loops polling for ever
\* while True: a loop that has slept after its last counted cycle polls
\* again; the count of cycles starts anew.  The trigger is followed until
\* MaxLetters documents have been generated, the verifier until the store
\* holds MaxMessages messages.
MaxLetters == 2

MaxMessages == 4

DocPollOn ==
  /\ dv.pc = "sleep"
  /\ dv.cycles = MaxCycles
  /\ file.kind = "full" => Len(file.data.messages) < MaxMessages
  /\ dv' = [ dv EXCEPT !.cycles = 0 ]
  /\ UNCHANGED << S, pc, turns, file, tr, docs, input >>

TriggerPollOn(i) ==
  /\ tr[i].pc = "sleep"
  /\ tr[i].cycles = MaxCycles
  /\ docs < MaxLetters
  /\ tr' = [ tr EXCEPT ![i].cycles = 0 ]
  /\ UNCHANGED << S, pc, turns, file, dv, docs, input >>

NextPolling == NextWorkers \/ DocPollOn \/ TriggerPollOn(1)

\* each loop takes a step whenever it can take one
FairPolling ==
  /\ WF_vars(DocLoad \/ DocProcess \/ DocDump \/ DocUpdate \/ DocUpdateDump
               \/ DocPollOn)
  /\ WF_vars(TriggerLoad(1) \/ TriggerGenerate(1) \/ TriggerDump(1)
               \/ TriggerPollOn(1))

\* --------------------------------- an upload in the store, the loops polling
\* simulate_document_upload has saved an entry of document_uploads with
\* status uploaded and verified false ("uploaded" here); both loops run and
\* every step that can be taken is taken in the end.
InitUpload ==
  /\ S = ConversationState
  /\ pc = "idle"
  /\ turns = 0
  /\ file \in { Whole([ d EXCEPT !.document_uploads = UploadsOf("uploaded", "absent") ]) :
                  d \in DocSnapshots }
  /\ input = "none"
  /\ dv = Worker0
  /\ tr = [ i \in Triggers |-> Worker0 ]
  /\ docs = 0

SpecUpload == InitUpload /\ [][NextPolling]_vars /\ FairPolling

\* The loops of run_parallel_processes over a store of an earlier session,
\* each loop taking every step it can take in the end (while True with a
\* sleep between two polls).
SpecPolling == InitWorkers /\ [][NextPolling]_vars /\ FairPolling

\* ------------------------------------------------------------------ claims
IsPrefix(a, b) == Len(a) <= Len(b) /\ SubSeq(b, 1, Len(a)) = a

\* C1: under every interleaving of the driver's save and load with the
\* workers' cycles, the driver's messages only grow: what the list held
\* before a step is still, in the same order, the front of the list after it.
C1_MessagesOnlyGrow == [][IsPrefix(S.messages, S'.messages)]_vars


\* C2: load_state applied to a state with k messages and a snapshot with at
\* most k messages leaves the k messages in place: the merged list starts
\* with them, so it is not shorter.
C2_MergeNeverTruncates ==
  (pc = "merged" /\ Len(file.data.messages) <= Len(input.messages))
    => IsPrefix(input.messages, S.messages)

\* C3: over the concurrent runs of the trigger against one starting store,
\* a sanction document is created at most once, and when the starting store
\* satisfies the predicate and every run has finished, exactly one was
\* created and its id is the one in the store.
AllRunsDone ==
  \A i \in Triggers : tr[i].pc = "sleep" /\ tr[i].cycles = MaxCycles

C3_SanctionExactlyOnce ==
  /\ docs <= 1
  /\ (AllRunsDone /\ ShouldGenerateSanctionLetter(input))
       => (docs = 1 /\ file.kind = "full" /\ file.data.sanction_letter_id = 1)

\* C4: no load of the state file, by the driver or by a worker, happens
\* while the file is opened for writing and not yet dumped by another
\* process: a load sees a whole snapshot (or no file).
DriverLoads == pc = "load" /\ pc' = "idle"

WorkerPolls ==
  \/ dv'.cycles > dv.cycles
  \/ \E i \in Triggers : tr'[i].cycles > tr[i].cycles

C4_LoadSeesWholeSnapshot ==
  [][(DriverLoads \/ WorkerPolls) => file.kind # "partial"]_vars

\* C5: when the driver loads back a snapshot it saved itself, what the
\* business-rule agent did since is kept: customer_details and
\* verification_status are as the agent left them and the messages it had
\* are still the front of the list.
C5_MergeKeepsLocalProgress ==
  [][(DriverLoads /\ file.kind = "full")
       => /\ S'.customer_details = S.customer_details
          /\ S'.verification_status = S.verification_status
          /\ IsPrefix(S.messages, S'.messages)]_vars

PastVerification(st) == Rank(st) > Rank("verification")

TableRow(i) ==
  CASE i.stage = "greeting" ->
         IF i.customer_id THEN << "intent_capture", "none" >>
                          ELSE << "greeting", "none" >>
    [] i.stage = "intent_capture" -> << "sales_exploration", "sales" >>
    [] i.stage = "sales_exploration" ->
         IF i.loan_details.amount /\ i.loan_details.tenure
           THEN << "verification", "verification" >>
           ELSE << "sales_exploration", "sales" >>
    [] i.stage = "verification" ->
         IF i.verification_status.verified
           THEN << "underwriting", "underwriting" >>
           ELSE << "verification", "verification" >>
    [] i.stage = "underwriting" /\ i.decision = "approved" ->
         << "documentation", "sanction-letter" >>
    [] i.stage = "underwriting" /\ i.decision = "rejected" ->
         << "closure", "none" >>
    [] i.stage = "underwriting" /\ i.decision = "need_more_info" ->
         << "underwriting", "underwriting" >>
    [] i.stage = "documentation" ->
         IF i.sanction_letter_id # 0 THEN << "closure", "none" >>
                                     ELSE << "documentation", "sanction-letter" >>
    [] i.stage = "closure" -> << "closure", "none" >>

InTable(i) == ~(i.stage = "underwriting" /\ i.decision = "pending")

SideWorker(a) ==
  CASE a = "sales_agent" -> "sales"
    [] a = "verification_agent" -> "verification"
    [] a = "underwriting_agent" -> "underwriting"
    [] a = "sanction_letter_agent" -> "sanction-letter"
    [] OTHER -> "none"

C8_StageTable ==
  (pc = "routed" /\ InTable(input))
    => /\ << S.stage, SideWorker(S.next_agent) >> = TableRow(input)
       /\ input.stage = "closure" => S.next_agent = "end"

\* a verified customer in verification has been routed to underwriting
C8_Routed ==
  /\ pc = "routed"
  /\ input.stage = "verification"
  /\ input.verification_status.verified
  /\ S.stage = "underwriting"
  /\ S.next_agent = "underwriting_agent"

\* C9: the driver's decision is not pending only when there is an
\* underwriting result, and once it is approved or rejected no step
\* changes it.
C9_DecisionStable ==
  [][/\ S'.decision # "pending" => S'.underwriting_result # "none"
     /\ S.decision \in { "approved", "rejected" } => S'.decision = S.decision]_vars

FilledKeys(s) ==
  LET cd == s.customer_details
      ld == s.loan_details
  IN { k \in CustomerFieldNames \cup { "income_proof" } : cd[k] }
       \cup { k \in LoanFieldNames : ld[k] }
       \cup { t \in { "salary_slip_uploaded", "bank_statement_uploaded" } :
                \E d \in cd.uploaded : t = d \o "_uploaded" }
       \cup { t \in { "salary_slip_verified", "bank_statement_verified" } :
                \E d \in cd.verified : t = d \o "_verified" }

C11_FieldsSticky == [][FilledKeys(S) \subseteq FilledKeys(S')]_vars

\* C12: in a cycle of the verifier on a store where a document type is
\* already verified, that type keeps its confidence score and its verified
\* flag; when no other type is waiting, no message is appended and the
\* store is not written by _process_documents.
InFirstCycle == dv.cycles = 1 /\ dv.pc \in { "write1", "update", "write2" }

C12_VerifiedNotRescored ==
  InFirstCycle =>
    /\ \A t \in input.customer_details.verified :
         /\ t \in dv.local.customer_details.verified
         /\ dv.local.customer_details.conf[t] = input.customer_details.conf[t]
    /\ Unverified(input) = {} =>
         /\ dv.pc # "write1"
         /\ dv.local.messages = input.messages
         /\ dv.pc = "update" => file = Whole(input)

\* a verified salary slip in a cycle that scores the bank statement
C12_OtherTypeScored ==
  /\ InFirstCycle
  /\ dv.pc = "write1"
  /\ "salary_slip" \in input.customer_details.verified
  /\ "bank_statement" \in input.customer_details.uploaded
  /\ dv.local.customer_details.conf["bank_statement"] = 30

\* C13: on the store left by a finished cycle of the verifier, the
\* readiness predicate is false, whatever the scores were: nothing is
\* scored again and no second summary message is appended.
C13_VerifierIdempotent ==
  (dv.pc = "sleep" /\ dv.cycles >= 1)
    => /\ ~HasUnverifiedDocuments(file.data)
       /\ Len(file.data.messages) <= Len(input.messages) + 1

\* C14: a store in which the trigger has persisted a sanction letter does
\* not satisfy _should_generate_sanction_letter, and the cycles of one
\* trigger, one after the other, create at most one document.
C14_TriggerIdempotent ==
  /\ (file.kind = "full" /\ file.data.sanction_letter_id # 0)
       => ~ShouldGenerateSanctionLetter(file.data)
  /\ docs <= 1

\* the second cycle has read the store that the first cycle wrote
C14_SecondCycleSeesLetter ==
  /\ tr[1].cycles = 2
  /\ tr[1].pc = "loaded"
  /\ tr[1].local.sanction_letter_id = 1
  /\ docs = 1

\* C15: _should_generate_sanction_letter is true exactly when there is no
\* sanction_letter_id, verified is true, the income proof is verified with
\* confidence at least 0.5, the underwriting decision is approved or
\* conditionally_approved, and each of the eight customer fields and the
\* five loan fields is present.
C15_Conjunction ==
  LET cd == input.customer_details
      ld == input.loan_details
      vs == input.verification_status
  IN /\ input.sanction_letter_id = 0
     /\ vs.verified
     /\ vs.income_proof_verified /\ vs.income_proof_confidence >= 50
     /\ input.underwriting_result \in { "approved", "conditionally_approved" }
     /\ cd.customer_id /\ cd.name /\ cd.phone /\ cd.address /\ cd.pan
     /\ cd.account_number /\ cd.ifsc_code /\ cd.bank_name
     /\ ld.amount /\ ld.tenure /\ ld.purpose /\ ld.interest_rate /\ ld.emi

C15_PredicateTable ==
  pc \in { "true", "false" } => ((pc = "true") <=> C15_Conjunction)

\* true at confidence exactly 0.5 with a conditional approval
C15_TrueAtThreshold ==
  /\ pc = "true"
  /\ input.verification_status.income_proof_confidence = 50
  /\ input.underwriting_result = "conditionally_approved"

\* C16: when a cycle of the verifier has finished and the aggregate
\* income-proof confidence it last computed is below 0.5, the persisted
\* verification_status says income_proof_verified false with that
\* confidence, and the trigger's predicate is false on the store.
LowAggregate(d) ==
  d.customer_details.ipc > 0 /\ d.customer_details.ipc < ConfThreshold

C16_LowConfidenceBlocks ==
  (dv.pc = "sleep" /\ dv.cycles >= 1 /\ LowAggregate(file.data))
    => /\ ~file.data.verification_status.income_proof_verified
       /\ file.data.verification_status.income_proof_confidence
            = file.data.customer_details.ipc
       /\ ~ShouldGenerateSanctionLetter(file.data)

\* C17: a document scored exactly 0.5 (50 hundredths) or more is marked
\* verified with status approved; one scored below 0.5 is marked not
\* verified with status rejected.
C17_ThresholdInclusive ==
  (InFirstCycle /\ dv.pc = "write1") =>
    \A t \in Unverified(input) :
      LET cd == dv.local.customer_details
      IN IF cd.conf[t] >= 50
           THEN t \in cd.verified /\ cd.status[t] = "approved"
           ELSE t \notin cd.verified /\ cd.status[t] = "rejected"

\* one type scored exactly 0.5 and the other just below, in one cycle
C17_AtAndBelowThreshold ==
  /\ InFirstCycle
  /\ dv.pc = "write1"
  /\ Unverified(input) = DocTypes
  /\ dv.local.customer_details.conf["salary_slip"] = 50
  /\ dv.local.customer_details.conf["bank_statement"] = 49
  /\ dv.local.customer_details.verified = { "salary_slip" }

\* C18: from greeting, with the satisfying conditions supplied, each call
\* of the stage machine keeps the stage or moves it to the next stage of
\* the order, never further and never back, and the stage eventually is
\* closure.
C18_HappyPath ==
  /\ [][Rank(S'.stage) \in { Rank(S.stage), Rank(S.stage) + 1 }]_vars
  /\ <>(S.stage = "closure")

\* closure reached with every condition supplied, the machine at its end
C18_AtClosure ==
  /\ pc = "stepping"
  /\ S.stage = "closure"
  /\ S.next_agent = "end"
  /\ \A c \in HappyConditions : Supplied(S, c)

\* C19: with the decision rejected a step that takes the driver's stage
\* out of underwriting takes it to closure, the stage is not documentation,
\* and from the first state with the decision rejected, in the driver or in
\* the store, sanction_letter_id is set nowhere: not in the driver, not in
\* the store, not in a snapshot a worker is about to write (a rejected
\* decision comes with no approving underwriting result anywhere, and
\* without one no step sets sanction_letter_id).
NoSanctionLetterAnywhere ==
  /\ S.sanction_letter_id = 0
  /\ file.kind = "full" => file.data.sanction_letter_id = 0
  /\ dv.local.sanction_letter_id = 0
  /\ \A i \in Triggers : tr[i].local.sanction_letter_id = 0

Approving(d) ==
  d.underwriting_result \in { "approved", "conditionally_approved" }

NoApprovalAnywhere ==
  /\ ~Approving(S)
  /\ file.kind = "full" => ~Approving(file.data)
  /\ ~Approving(dv.local)
  /\ \A i \in Triggers : ~Approving(tr[i].local)

NeverALetter == NoApprovalAnywhere /\ NoSanctionLetterAnywhere

RejectedSomewhere ==
  \/ S.decision = "rejected"
  \/ file.kind = "full" /\ file.data.decision = "rejected"

StageMachineRan == turns' = turns + 1 /\ S' # AddMessage(S, "user")

C20_LoopGuardCounts ==
  [][/\ StageMachineRan => S'.recursion_depth > 0
     /\ S'.recursion_depth > RecursionLimit => S'.stage = "greeting"]_vars

\* C21: on a state whose stage is none of the seven stages the stage
\* machine, conversion of the incoming state included, does not raise; it
\* keeps the stage and routes to generate_response.
C21_UnknownStageFallsBack ==
  input.state.stage \notin Stages =>
    /\ pc # "raised"
    /\ pc = "routed" =>
         S.stage = input.state.stage /\ S.next_agent = "generate_response"

\* C22: every call of process_message returns a result with a response, a
\* stage and a decision that is one of the four decision values; when the
\* call failed internally the response is the apology, the returned
\* decision is the driver's decision as it was, and the call left the
\* driver's stage, decision, customer_details and loan_details unchanged.
C22_WellFormedResult ==
  [][turns' = turns + 1 =>
       /\ input'.response \in { "reply", "apology" }
       /\ input'.stage = S'.stage
       /\ input'.decision \in Decisions
       /\ input'.response = "apology" =>
            /\ input'.decision = S.decision
            /\ S'.stage = S.stage
            /\ S'.decision = S.decision
            /\ S'.customer_details = S.customer_details
            /\ S'.loan_details = S.loan_details]_vars

\* C23: load_state with the state file missing returns the caller's state
\* with every field as it was.
C23_MissingFileUnchanged ==
  (pc = "merged" /\ file.kind = "none") => S = input

\* a state with fields that differ from the default ones, merged with no
\* file present
C23_MergedWithoutFile ==
  /\ pc = "merged"
  /\ file.kind = "none"
  /\ S.customer_details.name
  /\ S.messages = << "user" >>
  /\ S.document_uploads = UploadsOf("pending", "pending")

\* C24: load_state on an unparseable file, or on a snapshot with a
\* malformed message, returns the caller's state with every field as it
\* was: nothing of the snapshot is applied.
MalformedFile ==
  \/ file.kind = "partial"
  \/ file.kind = "full" /\ \E i \in 1..Len(file.data.messages) :
                             file.data.messages[i] = "malformed"

C24_CorruptFileUnchanged ==
  (pc = "merged" /\ MalformedFile) => S = input

\* C25: in both loops a poll that fails on an unparseable file ends at the
\* sleep of the loop with the cycle counted, never outside the loop, and
\* the next poll is possible, after any number of failing polls.
C25_LoopsSurviveErrors ==
  /\ [][(file.kind = "partial" /\ dv.pc = "sleep" /\ dv' # dv)
          => (dv'.pc = "sleep" /\ dv'.cycles = dv.cycles + 1)]_vars
  /\ [][(file.kind = "partial" /\ tr[1].pc = "sleep" /\ tr[1]' # tr[1])
          => (tr[1]'.pc = "sleep" /\ tr[1]'.cycles = tr[1].cycles + 1)]_vars
  /\ []((dv.pc = "sleep" /\ dv.cycles < MaxCycles) => ENABLED DocLoad)
  /\ []((tr[1].pc = "sleep" /\ tr[1].cycles < MaxCycles)
          => ENABLED TriggerLoad(1))

\* both loops back at their sleep after two polls each of a file that
\* nobody has completed
C25_AfterFailedPolls ==
  /\ file.kind = "partial"
  /\ dv.pc = "sleep" /\ dv.cycles >= 2
  /\ tr[1].pc = "sleep" /\ tr[1].cycles >= 2
  /\ docs = 0

\* C26: once a loop is stopped by an interrupt, whether it slept, had
\* loaded or was writing, it polls no more and the store holds a complete
\* snapshot, not a truncated one.
C26_InterruptLeavesWholeStore ==
  /\ [][(dv.pc = "stopped" => dv' = dv)
        /\ (tr[1].pc = "stopped" => tr[1]' = tr[1])]_vars
  /\ []((dv.pc = "stopped" /\ tr[1].pc = "stopped") => file.kind = "full")

\* C27: for one reply generate_content_with_retry tries at most
\* max_retries times, and the driver falls back to its canned reply only
\* when the tries were exhausted against a rate-limited service.
C27_RetryBounded ==
  /\ input.tries <= MaxRetries
  /\ pc = "fallback" => input.api = "limited"

\* C28: after a merge every key of document_uploads that the state or the
\* snapshot had is there: a key of the snapshot holds the snapshot's entry,
\* a key of the state alone holds the state's entry unchanged.
C28_UploadsMergedPerKey ==
  (pc = "merged" /\ file.kind = "full") =>
    \A d \in UploadIds :
      S.document_uploads[d] =
        IF file.data.document_uploads[d] # "absent"
          THEN file.data.document_uploads[d]
          ELSE input.document_uploads[d]

\* one key only in the state, kept, and one only in the snapshot, added
C28_BothSidesKept ==
  /\ pc = "merged"
  /\ file.kind = "full"
  /\ input.document_uploads = UploadsOf("pending", "absent")
  /\ file.data.document_uploads = UploadsOf("absent", "verified")
  /\ S.document_uploads = UploadsOf("pending", "verified")

\* C29: after a merge of a snapshot that carries a nested income-proof
\* result, income_proof_verified and income_proof_confidence of the state's
\* verification_status are the ones computed from that result, whatever
\* verification_status block the snapshot carries besides.
C29_FlagsRecomputed ==
  (pc = "merged" /\ file.kind = "full"
     /\ file.data.income_proof_verification.present) =>
    /\ S.verification_status.income_proof_verified
         = (file.data.income_proof_verification.status = "verified")
    /\ S.verification_status.income_proof_confidence
         = file.data.income_proof_verification.confidence_score

\* C30: after a merge of a snapshot with sanction_letter_id set the state
\* has the snapshot's sanction_letter_id and its documentation status is
\* completed, whatever state the merge was applied to.
C30_LetterPropagates ==
  (pc = "merged" /\ file.kind = "full" /\ file.data.sanction_letter_id # 0
     /\ ~MergeRaises(input.messages, file.data.messages)) =>
    /\ S.sanction_letter_id = file.data.sanction_letter_id
    /\ S.documentation_status = "completed"

\* C31: a state saved and then loaded into a fresh template equals the
\* saved one on every field of the data model.
SnapshotFields ==
  { "stage", "customer_details", "loan_details", "verification_status",
    "underwriting_result", "decision", "sanction_letter_id", "messages",
    "errors", "document_uploads", "session_id" }

C31_RoundTripComplete ==
  pc = "restored" => \A f \in SnapshotFields : S[f] = input[f]

\* C32: in every process_message call the store is written after the
\* business-rule function has run and before the reload: when load_state is
\* about to run the file holds the state as the function left it, and no
\* call that ran the graph ends without having written the file.
C32_PersistBeforeReload ==
  /\ [](pc = "load" => file = Whole(StateToDict(S)))
  /\ [][(StageMachineRan /\ pc' = "idle") => file' # file]_vars

\* C33: the upload entry saved in document_uploads is never deleted and the
\* verifier, polling fairly, eventually leaves it scored in the store.
UploadUntouched ==
  file.kind = "full" => file.data.document_uploads["doc_1"] = "uploaded"

C33_UploadEventuallyScored ==
  /\ [](file.kind = "full" => file.data.document_uploads["doc_1"] # "absent")
  /\ <>(file.kind = "full"
          /\ file.data.document_uploads["doc_1"] \notin { "absent", "uploaded" })

\* C34: a trigger cycle whose loaded snapshot satisfies the predicate goes on
\* to write that snapshot with a sanction_letter_id, and a store that is
\* ready when the trigger is about to poll does not stay ready for ever.
StoreReady == file.kind = "full" /\ ShouldGenerateSanctionLetter(file.data)

ReadyLeadsToLetter ==
  (StoreReady /\ tr[1].pc = "sleep") ~> ~StoreReady

C34_ReadyStoreGetsLetter ==
  /\ [][(tr[1].pc = "loaded" /\ ShouldGenerateSanctionLetter(tr[1].local)
           /\ tr'[1] # tr[1])
          => (tr'[1].pc = "write" /\ tr'[1].local.sanction_letter_id # 0)]_vars
  /\ ReadyLeadsToLetter

\* C35: a worker cycle writes back the messages it loaded, the verifier
\* leaves sanction_letter_id and documentation_status as loaded, and the
\* trigger leaves customer_details and verification_status as loaded.
VerifierKeepsMessages ==
  (dv.pc \in { "loaded", "update" } /\ dv'.pc \in { "write1", "write2" })
    => dv'.local.messages = dv.local.messages

VerifierKeepsLetter ==
  (dv.pc \in { "loaded", "update" } /\ dv'.pc \in { "write1", "write2" })
    => /\ dv'.local.sanction_letter_id = dv.local.sanction_letter_id
       /\ dv'.local.documentation_status = dv.local.documentation_status

TriggerKeepsOthers ==
  (tr[1].pc = "loaded" /\ tr'[1].pc = "write")
    => /\ tr'[1].local.messages = tr[1].local.messages
       /\ tr'[1].local.customer_details = tr[1].local.customer_details
       /\ tr'[1].local.verification_status = tr[1].local.verification_status

C35_WriteSetsPartitioned ==
  [][VerifierKeepsMessages /\ VerifierKeepsLetter /\ TriggerKeepsOthers]_vars

C35_OtherFieldsKept == [][VerifierKeepsLetter /\ TriggerKeepsOthers]_vars

\* C36: a cycle of a loop whose predicate is false on the loaded snapshot
\* changes neither the snapshot nor the store and ends at the sleep; a cycle
\* whose predicate is true mutates the snapshot once and goes on to write it.
NotReadyNoMutation ==
  /\ (dv.pc = "loaded" /\ ~HasUnverifiedDocuments(dv.local) /\ dv' # dv)
       => (dv'.local = dv.local /\ file' = file)
  /\ (tr[1].pc = "loaded" /\ ~ShouldGenerateSanctionLetter(tr[1].local)
        /\ tr'[1] # tr[1])
       => (tr'[1].pc = "sleep" /\ file' = file)

NotReadyNoWrite ==
  (dv.pc = "update" /\ ~HasUnverifiedDocuments(dv.local) /\ dv' # dv)
    => (dv'.pc = "sleep" /\ file' = file)

ReadyOneMutation ==
  (dv.pc = "loaded" /\ HasUnverifiedDocuments(dv.local) /\ dv' # dv)
    => (dv'.pc = "write1" /\ dv'.local # dv.local)

C36_MutationOnlyWhenReady ==
  [][NotReadyNoMutation /\ NotReadyNoWrite /\ ReadyOneMutation]_vars

C36_FirstStepOfCycle == [][NotReadyNoMutation /\ ReadyOneMutation]_vars

\* C37: once the underwriting agent has left an approved or rejected outcome
\* in the driver's state, decision and underwriting_result.decision are that
\* outcome.
C37_DecisionMirrorsUnderwriting ==
  S.underwriting_status \in { "approved", "rejected" }
    => (S.decision = S.underwriting_status
          /\ S.underwriting_result = S.underwriting_status)

\* C38: in the driver's state and in the store, verified is true only if
\* customer_verified, phone_verified, address_verified,
\* account_details_verified and income_proof_verified are all true.
AggregateDerived(vs) ==
  vs.verified
    => /\ vs.customer_verified /\ vs.phone_verified /\ vs.address_verified
       /\ vs.account_details_verified /\ vs.income_proof_verified

IncomeProofStillPasses ==
  /\ S.verification_status.verified => S.customer_details.income_proof
  /\ (file.kind = "full" /\ file.data.verification_status.verified)
       => file.data.customer_details.income_proof

\* C39: a sanction_letter_id held by the store is held by every later store:
\* a write over a store with an id leaves that id, and a writer that opens
\* such a store for writing is about to write a snapshot with that id.
StoreHasLetter == file.kind = "full" /\ file.data.sanction_letter_id # 0

SaveKeepsLetter ==
  (StoreHasLetter /\ file'.kind = "full")
    => file'.data.sanction_letter_id = file.data.sanction_letter_id

VerifierWriteKeepsLetter ==
  (StoreHasLetter /\ dv'.pc \in { "write1", "write2" } /\ dv'.pc # dv.pc)
    => dv'.local.sanction_letter_id = file.data.sanction_letter_id

TriggerWriteKeepsLetter ==
  \A i \in Triggers :
    (StoreHasLetter /\ tr'[i].pc = "write" /\ tr[i].pc # "write")
      => tr'[i].local.sanction_letter_id = file.data.sanction_letter_id

C39_LetterStaysInStore ==
  [][SaveKeepsLetter /\ VerifierWriteKeepsLetter /\ TriggerWriteKeepsLetter]_vars

C39_SaveKeeps == [][SaveKeepsLetter]_vars

C39_VerifierKeeps == [][VerifierWriteKeepsLetter]_vars

C39_TriggerKeeps == [][TriggerWriteKeepsLetter]_vars

\* C40: when the driver merges a store that holds a result message of the
\* verifier which the driver's state does not hold, the merged state holds
\* that message as many times as the store does.
VerifierMessages == { "docs_verified", "docs_rejected" }

Occurrences(seq, t) == Cardinality({ i \in 1..Len(seq) : seq[i] = t })

C40_VerifierMessageAbsorbed ==
  [][(pc = "load" /\ pc' = "idle" /\ file.kind = "full")
       => \A t \in VerifierMessages :
            Occurrences(S.messages, t) = 0
              => Occurrences(S'.messages, t) = Occurrences(file.data.messages, t)]_vars

====
